---- MODULE Spec2Model ----
(***************************************************************************)
(* A model of game_sim.py: the Game base class (construction, options,     *)
(* reset, step, the per-player queries), ActionList, and the two players   *)
(* (the random Player and the command line CLI_Player).                    *)
(*                                                                         *)
(* Python values are tagged records, a Game object is its attribute        *)
(* dictionary (a function from attribute names to values), and a call that *)
(* raises is recorded as an outcome, never dropped.                        *)
(***************************************************************************)
EXTENDS Integers, Sequences, FiniteSets, TLC

(***************************************************************************)
(* Bounds of the model.                                                    *)
(***************************************************************************)
\* the number of lines the user types on standard input in one run
MaxTyped == 2
\* player ids handed to the queries range over -1 .. MaxPlayerId
MaxPlayerId == 1

(***************************************************************************)
(* Python values.                                                          *)
(***************************************************************************)
PyNone == [t |-> "none"]
PyBool(b) == [t |-> "bool", b |-> b]
PyInt(i) == [t |-> "int", i |-> i]
PyStr(s) == [t |-> "str", s |-> s]
PyList(l) == [t |-> "list", l |-> l]
PyDict(d) == [t |-> "dict", d |-> d]

\* Python's truth value of an object, as `if x:` tests it
Truthy(v) ==
  CASE v.t = "none" -> FALSE
    [] v.t = "bool" -> v.b
    [] v.t = "int" -> v.i # 0
    [] v.t = "str" -> v.s # ""
    [] v.t = "list" -> v.l # <<>>
    [] v.t = "dict" -> DOMAIN v.d # {}
    [] OTHER -> TRUE

\* the outcome of evaluating an expression or a call
Ok(v) == [res |-> "ok", val |-> v]
Raise(e) == [res |-> "raise", exc |-> e]

\* container[key] for a list container (negative keys count from the end)
Subscript(c, k) ==
  IF c.t # "list" THEN Raise("TypeError")
  ELSE IF k.t # "int" THEN Raise("TypeError")
  ELSE IF k.i >= 0 /\ k.i < Len(c.l) THEN Ok(c.l[k.i + 1])
  ELSE IF k.i < 0 /\ k.i >= -Len(c.l) THEN Ok(c.l[Len(c.l) + k.i + 1])
  ELSE Raise("IndexError")

\* self.<name>
GetAttr(self, name) ==
  IF name \in DOMAIN self THEN Ok(self[name]) ELSE Raise("AttributeError")

\* setattr(self, name, v)
SetAttr(self, name, v) ==
  [k \in DOMAIN self \cup {name} |-> IF k = name THEN v ELSE self[k]]

(***************************************************************************)
(* Players.                                                                *)
(***************************************************************************)
\* Player()
Player == [t |-> "obj", cls |-> "Player"]
\* CLI_Player(ostream): "stdout" is sys.stdout (or any text stream, whose
\* write() takes only str), "duck" is an object whose write() takes anything
CLI_Player(ostream) == [t |-> "obj", cls |-> "CLI_Player", ostream |-> ostream]

(***************************************************************************)
(* ActionList: the stored sequence of actions.                             *)
(***************************************************************************)
ActionList(actions) == actions

isValid_Any(possible, input_str) == TRUE

isValid_IgnoreCase(possible, input_str) ==
  \E i \in 1..Len(possible) :
    (IF possible[i] = "X" THEN "x" ELSE possible[i])
      = (IF input_str = "X" THEN "x" ELSE input_str)

\* ActionList.isValid
isValid(possible, input_str) ==
  \E i \in 1..Len(possible) : possible[i] = input_str

\* possible.isValid(x) for any Python object x: the stored actions are str,
\* and a str equals no object of another type
isValidObject(possible, x) ==
  x.t = "str" /\ isValid(possible, x.s)

get_random_action_First(possible) ==
  IF possible = <<>> THEN {} ELSE {possible[1]}

\* ActionList.get_random_action: the values rand.choice may return
get_random_action(possible) ==
  {possible[i] : i \in 1..Len(possible)}

(***************************************************************************)
(* Game: the methods as functions of the attribute dictionary.             *)
(***************************************************************************)
\* a mapping argument that was not passed (None)
NoMapping == [given |-> FALSE]
Mapping(m) == [given |-> TRUE, map |-> m]
EmptyMap == [n \in {} |-> PyNone]
\* `if mapping:`
MappingTruthy(a) == a.given /\ DOMAIN a.map # {}

update_options_NoPrefix(self, options) ==
  [k \in DOMAIN self \cup DOMAIN options |->
     IF k \in DOMAIN options THEN options[k] ELSE self[k]]

\* Game.update_options
update_options(self, options) ==
  LET named == {"_opt_" \o name : name \in DOMAIN options}
  IN [k \in DOMAIN self \cup named |->
        IF k \in named
        THEN options[CHOOSE name \in DOMAIN options : "_opt_" \o name = k]
        ELSE self[k]]

reset_game_KeepsOver(self) ==
  SetAttr(SetAttr(SetAttr(SetAttr(self,
    "players", PyList(<<Player>>)),
    "_scores", PyList(<<PyInt(0)>>)),
    "_current_player_id", PyInt(0)),
    "game_over", IF "game_over" \in DOMAIN self THEN self["game_over"]
                 ELSE PyBool(FALSE))

reset_game_OffByOne(self) ==
  SetAttr(SetAttr(SetAttr(SetAttr(self,
    "players", PyList(<<Player>>)),
    "_scores", PyList(<<PyInt(0)>>)),
    "_current_player_id", PyInt(1)),
    "game_over", PyBool(FALSE))

\* Game.reset_game
reset_game(self) ==
  SetAttr(SetAttr(SetAttr(SetAttr(self,
    "players", PyList(<<Player>>)),
    "_scores", PyList(<<PyInt(0)>>)),
    "_current_player_id", PyInt(0)),
    "game_over", PyBool(FALSE))

\* Game._load_state
_load_state(self, state) ==
  [k \in DOMAIN self \cup DOMAIN state |->
     IF k \in DOMAIN state THEN state[k] ELSE self[k]]

__init___AlwaysReset(state, options) ==
  LET s0 == [k \in {"game_over"} |-> PyBool(FALSE)]
      s1 == IF MappingTruthy(options) THEN update_options(s0, options.map)
            ELSE s0
  IN IF MappingTruthy(state)
     THEN [self |-> reset_game(_load_state(s1, state.map)), reset |-> TRUE]
     ELSE [self |-> reset_game(s1), reset |-> TRUE]

__init___StartsOver(state, options) ==
  LET s0 == [k \in {"game_over"} |-> PyBool(TRUE)]
      s1 == IF MappingTruthy(options) THEN update_options(s0, options.map)
            ELSE s0
  IN IF MappingTruthy(state)
     THEN [self |-> _load_state(s1, state.map), reset |-> FALSE]
     ELSE [self |-> reset_game(s1), reset |-> TRUE]

__init___OptionsLast(state, options) ==
  LET s0 == [k \in {"game_over"} |-> PyBool(FALSE)]
      s1 == IF MappingTruthy(state) THEN _load_state(s0, state.map)
            ELSE reset_game(s0)
  IN [self |-> IF MappingTruthy(options) THEN update_options(s1, options.map)
               ELSE s1,
      reset |-> ~MappingTruthy(state)]

\* Game.__init__: the attributes it leaves and whether it called reset_game
__init__(state, options) ==
  LET s0 == [k \in {"game_over"} |-> PyBool(FALSE)]
      s1 == IF MappingTruthy(options) THEN update_options(s0, options.map)
            ELSE s0
  IN IF MappingTruthy(state)
     THEN [self |-> _load_state(s1, state.map), reset |-> FALSE]
     ELSE [self |-> reset_game(s1), reset |-> TRUE]

\* self.players[self._current_player_id], as step evaluates it
CurrentPlayer(self) ==
  IF GetAttr(self, "players").res = "raise" THEN GetAttr(self, "players")
  ELSE IF GetAttr(self, "_current_player_id").res = "raise"
  THEN GetAttr(self, "_current_player_id")
  ELSE Subscript(self["players"], self["_current_player_id"])

\* the bound method self.players[self._current_player_id].get_action
GetActionMethod(self) ==
  IF CurrentPlayer(self).res = "raise" THEN CurrentPlayer(self)
  ELSE IF CurrentPlayer(self).val.t # "obj" THEN Raise("AttributeError")
  ELSE CurrentPlayer(self)

ApplyAction_NextPlayer(self, act) ==
  IF act = "1" THEN SetAttr(self, "game_over", PyBool(TRUE))
  ELSE SetAttr(self, "_current_player_id", PyInt(1))

ApplyAction_Never(self, act) == self

ApplyAction_Zero(self, act) ==
  IF act = "0" THEN SetAttr(self, "game_over", PyBool(TRUE)) ELSE self

\* the end of step: `if act == "1": self.game_over = True`
ApplyAction(self, act) ==
  IF act = "1" THEN SetAttr(self, "game_over", PyBool(TRUE)) ELSE self

get_player_reward_First(self, player_id) ==
  IF GetAttr(self, "_scores").res = "raise" THEN GetAttr(self, "_scores")
  ELSE Subscript(self["_scores"], PyInt(0))

\* Game.get_player_reward
get_player_reward(self, player_id) ==
  IF GetAttr(self, "_scores").res = "raise" THEN GetAttr(self, "_scores")
  ELSE Subscript(self["_scores"], player_id)

get_player_state_Leaky(self, player_id) ==
  IF GetAttr(self, "_scores").res = "raise" THEN GetAttr(self, "_scores")
  ELSE IF Subscript(self["_scores"], player_id).res = "raise"
  THEN Subscript(self["_scores"], player_id)
  ELSE Ok(PyDict([score |-> self["_scores"]]))

\* Game.get_player_state
get_player_state(self, player_id) ==
  IF GetAttr(self, "_scores").res = "raise" THEN GetAttr(self, "_scores")
  ELSE IF Subscript(self["_scores"], player_id).res = "raise"
  THEN Subscript(self["_scores"], player_id)
  ELSE Ok(PyDict([score |-> Subscript(self["_scores"], player_id).val]))

(***************************************************************************)
(* The inputs the driver may pass.                                         *)
(***************************************************************************)
StepActions_Empty == ActionList(<<>>)

\* the action list step presents
StepActions == ActionList(<<"0", "1">>)

\* the lines the user may type
Lines == {"0", "1", "x"}

\* the state mappings passed to Game(state=...)
StateGameOver == [k \in {"game_over"} |-> PyBool(TRUE)]
StateSaved ==
  [k \in {"game_over", "players", "_scores", "_current_player_id"} |->
     CASE k = "game_over" -> PyBool(FALSE)
       [] k = "players" -> PyList(<<Player, CLI_Player("duck")>>)
       [] k = "_scores" -> PyList(<<PyInt(3), PyInt(5)>>)
       [] OTHER -> PyInt(1)]
StateStdout ==
  [k \in {"players", "_scores", "_current_player_id"} |->
     CASE k = "players" -> PyList(<<CLI_Player("stdout")>>)
       [] k = "_scores" -> PyList(<<PyInt(0)>>)
       [] OTHER -> PyInt(0)]
StateBadIndex ==
  [k \in {"players", "_scores", "_current_player_id", "_opt_a"} |->
     CASE k = "players" -> PyList(<<Player>>)
       [] k = "_scores" -> PyList(<<PyInt(0)>>)
       [] k = "_opt_a" -> PyInt(7)
       [] OTHER -> PyInt(1)]
StateTruthy == [k \in {"game_over"} |-> PyInt(1)]
StateFalsy == [k \in {"game_over"} |-> PyInt(0)]
StateMappings ==
  {EmptyMap, StateGameOver, StateSaved, StateStdout, StateBadIndex,
   StateTruthy, StateFalsy}

\* the options mappings passed to Game(options=...) and update_options
OptionMappings ==
  {EmptyMap,
   [k \in {"game_over"} |-> PyBool(TRUE)],
   [k \in {"a", "game_over"} |-> IF k = "a" THEN PyInt(1) ELSE PyBool(FALSE)]}

\* the player ids passed to the queries
PlayerIds == -1..MaxPlayerId

\* the candidates of a direct isValid call
Candidates == {PyStr("1"), PyStr("X"), PyStr("1 "), PyInt(1)}

\* the players and action lists of a direct get_action call
DirectPlayers == {Player, CLI_Player("duck"), CLI_Player("stdout")}
DirectActions == {ActionList(<<>>), ActionList(<<"x", "1", "x">>)}

(***************************************************************************)
(* The state.                                                              *)
(***************************************************************************)
VARIABLES
  self,    \* the Game object's attributes (its __dict__)
  last,    \* the latest completed call: operation, arguments, outcome
  pc,      \* "idle", or "input" while get_action is blocked in input()
  frame,   \* the get_action call in progress
  stdin,   \* the lines typed and not yet read
  typed,   \* how many lines were typed so far
  eof      \* standard input was closed

vars == <<self, last, pc, frame, stdin, typed, eof>>

NoFrame == [via |-> "none"]
\* a get_action call: who called it, on which player, with which actions,
\* the lines it read and what it wrote to its ostream
Frame(via, player, possible, read, written) ==
  [via |-> via, player |-> player, possible |-> possible, read |-> read,
   written |-> written]

\* the record of a completed call: reset tells whether it called reset_game,
\* asks counts the get_action calls it made, act is the action a player
\* returned to it and ga is that get_action call
Call(op, arg, outcome) ==
  [op |-> op, arg |-> arg, outcome |-> outcome, reset |-> FALSE, asks |-> 0,
   act |-> PyNone, ga |-> NoFrame]

Init ==
  /\ \E state \in {NoMapping} \cup {Mapping(m) : m \in StateMappings},
        options \in {NoMapping} \cup {Mapping(m) : m \in OptionMappings} :
       /\ self = __init__(state, options).self
       /\ last = [Call("__init__", [state |-> state, options |-> options],
                       Ok(PyNone))
                  EXCEPT !.reset = __init__(state, options).reset]
  /\ pc = "idle"
  /\ frame = NoFrame
  /\ stdin = <<>>
  /\ typed = 0
  /\ eof = FALSE

(***************************************************************************)
(* Player.get_action and CLI_Player.get_action.  A call is made by step    *)
(* (via = "step") or by a driver that holds a player (via = "direct").     *)
(***************************************************************************)
ActionListText == "<ActionList>"
Prompt == "Select an action: "
NotValid == "Not a valid action!"

\* what CLI_Player.get_action writes before its first input()
FirstPrompt == <<ActionListText, Prompt>>
\* what it writes after an invalid line
Reprompt == <<NotValid, ActionListText, Prompt>>

\* the return of get_action to its caller: step applies the action, a
\* direct caller only receives it
Return(ga, outcome) ==
  /\ pc' = "idle"
  /\ frame' = NoFrame
  /\ IF ga.via = "step"
     THEN /\ self' = IF outcome.res = "ok"
                     THEN ApplyAction(self, outcome.val.s) ELSE self
          /\ last' = [Call("step", PyNone,
                           IF outcome.res = "ok" THEN Ok(PyNone) ELSE outcome)
                      EXCEPT !.asks = 1, !.ga = ga,
                             !.act = IF outcome.res = "ok" THEN outcome.val
                                     ELSE PyNone]
     ELSE /\ self' = self
          /\ last' = [Call("get_action", PyNone, outcome)
                      EXCEPT !.asks = 1, !.ga = ga,
                             !.act = IF outcome.res = "ok" THEN outcome.val
                                     ELSE PyNone]

\* Player.get_action: a random action, or rand.choice's IndexError
RandomGetAction(via, player, possible) ==
  /\ player.cls = "Player"
  /\ \/ /\ possible = <<>>
        /\ Return(Frame(via, player, possible, <<>>, <<>>),
                  Raise("IndexError"))
     \/ \E act \in get_random_action(possible) :
          Return(Frame(via, player, possible, <<>>, <<>>), Ok(PyStr(act)))
  /\ UNCHANGED <<stdin, typed, eof>>

\* CLI_Player.get_action up to its first input(): self.out(possible) raises
\* on a text stream, otherwise the call blocks in input()
CLIGetAction(via, player, possible) ==
  /\ player.cls = "CLI_Player"
  /\ \/ /\ player.ostream = "stdout"
        /\ Return(Frame(via, player, possible, <<>>, <<>>),
                  Raise("TypeError"))
     \/ /\ player.ostream # "stdout"
        /\ pc' = "input"
        /\ frame' = Frame(via, player, possible, <<>>, FirstPrompt)
        /\ UNCHANGED <<self, last>>
  /\ UNCHANGED <<stdin, typed, eof>>

\* input() returns a line or raises EOFError, and the loop of
\* CLI_Player.get_action runs to its next input() or to its return
GetActionInput ==
  /\ pc = "input"
  /\ \/ /\ stdin # <<>>
        /\ stdin' = Tail(stdin)
        /\ IF isValid(frame.possible, Head(stdin))
           THEN Return([frame EXCEPT !.read = Append(@, Head(stdin))],
                       Ok(PyStr(Head(stdin))))
           ELSE /\ frame' = [frame EXCEPT
                               !.read = Append(@, Head(stdin)),
                               !.written = @ \o Reprompt]
                /\ UNCHANGED <<self, last, pc>>
     \/ /\ stdin = <<>>
        /\ eof
        /\ Return(frame, Raise("EOFError"))
        /\ UNCHANGED stdin
  /\ UNCHANGED <<typed, eof>>

\* a driver calls player.get_action(ActionList(actions)) itself
CallGetAction ==
  /\ pc = "idle"
  /\ \E player \in DirectPlayers, possible \in DirectActions :
       \/ RandomGetAction("direct", player, possible)
       \/ CLIGetAction("direct", player, possible)

\* a driver calls ActionList(actions).isValid(x) itself
CallIsValid ==
  /\ pc = "idle"
  /\ \E possible \in DirectActions, x \in Candidates :
       last' = Call("isValid", [possible |-> possible, candidate |-> x],
                    Ok(PyBool(isValidObject(possible, x))))
  /\ UNCHANGED <<self, pc, frame, stdin, typed, eof>>

(***************************************************************************)
(* The operations of Game.                                                 *)
(***************************************************************************)
\* Game.step when game_over holds: the early return
StepOver ==
  /\ last' = Call("step", PyNone, Ok(PyNone))
  /\ UNCHANGED <<self, pc, frame, stdin, typed, eof>>

\* Game.step otherwise: ask the current player and apply its action
StepTurn ==
  IF GetActionMethod(self).res = "raise"
  THEN /\ last' = Call("step", PyNone, GetActionMethod(self))
       /\ UNCHANGED <<self, pc, frame, stdin, typed, eof>>
  ELSE \/ RandomGetAction("step", GetActionMethod(self).val, StepActions)
       \/ CLIGetAction("step", GetActionMethod(self).val, StepActions)

Step_NoGuard ==
  /\ pc = "idle"
  /\ StepTurn

\* Game.step
Step ==
  /\ pc = "idle"
  /\ IF Truthy(self["game_over"]) THEN StepOver ELSE StepTurn

\* Game.reset_game
ResetGame ==
  /\ pc = "idle"
  /\ self' = reset_game(self)
  /\ last' = [Call("reset_game", PyNone, Ok(PyNone)) EXCEPT !.reset = TRUE]
  /\ UNCHANGED <<pc, frame, stdin, typed, eof>>

\* Game.update_options
UpdateOptions ==
  /\ pc = "idle"
  /\ \E options \in OptionMappings :
       /\ self' = update_options(self, options)
       /\ last' = Call("update_options", PyDict(options), Ok(PyNone))
  /\ UNCHANGED <<pc, frame, stdin, typed, eof>>

GetFullState_Fatal ==
  /\ pc = "idle"
  /\ self' = SetAttr(self, "game_over", PyBool(TRUE))
  /\ last' = Call("get_full_state", PyNone, Raise("NotImplementedError"))
  /\ UNCHANGED <<pc, frame, stdin, typed, eof>>

\* Game.get_full_state
GetFullState ==
  /\ pc = "idle"
  /\ last' = Call("get_full_state", PyNone, Raise("NotImplementedError"))
  /\ UNCHANGED <<self, pc, frame, stdin, typed, eof>>

\* Game.get_player_state
GetPlayerState ==
  /\ pc = "idle"
  /\ \E player_id \in PlayerIds :
       last' = Call("get_player_state", PyInt(player_id),
                    get_player_state(self, PyInt(player_id)))
  /\ UNCHANGED <<self, pc, frame, stdin, typed, eof>>

\* Game.get_player_reward
GetPlayerReward ==
  /\ pc = "idle"
  /\ \E player_id \in PlayerIds :
       last' = Call("get_player_reward", PyInt(player_id),
                    get_player_reward(self, PyInt(player_id)))
  /\ UNCHANGED <<self, pc, frame, stdin, typed, eof>>

(***************************************************************************)
(* The user at the terminal.                                               *)
(***************************************************************************)
\* the user types a line
TypeLine ==
  /\ ~eof
  /\ typed < MaxTyped
  /\ \E line \in Lines : stdin' = Append(stdin, line)
  /\ typed' = typed + 1
  /\ UNCHANGED <<self, last, pc, frame, eof>>

\* the user closes standard input
CloseStdin ==
  /\ ~eof
  /\ eof' = TRUE
  /\ UNCHANGED <<self, last, pc, frame, stdin, typed>>

Next ==
  \/ Step
  \/ GetActionInput
  \/ CallGetAction
  \/ CallIsValid
  \/ ResetGame
  \/ UpdateOptions
  \/ GetFullState
  \/ GetPlayerState
  \/ GetPlayerReward
  \/ TypeLine
  \/ CloseStdin

Spec == Init /\ [][Next]_vars

(***************************************************************************)
(* Properties.                                                             *)
(***************************************************************************)
GameOver == Truthy(self["game_over"])

\* C1: step() called while game_over is true asks no player for an action,
\* leaves every attribute of the game as it was (game_over still true) and
\* returns normally; being a property of every step, it holds for any number
\* of repeated calls.
C1_StepWhenOverIsNoOp ==
  [][(Step /\ GameOver) =>
       /\ self' = self
       /\ GameOver'
       /\ last'.asks = 0
       /\ last'.outcome = Ok(PyNone)
       /\ UNCHANGED <<pc, frame, stdin, typed, eof>>]_vars

\* a step() that returned at once in a game that is over and has options set
C1_Witness ==
  /\ last.op = "step"
  /\ last.asks = 0
  /\ last.outcome = Ok(PyNone)
  /\ GameOver
  /\ "_opt_a" \in DOMAIN self

\* C2: once game_over is true, no step(), update_options(),
\* get_player_state(), get_player_reward() or get_full_state() makes it false
\* again: the only call after which it is false is reset_game().
C2_GameOverMonotonic ==
  [][(GameOver /\ ~GameOver') => last'.op = "reset_game"]_vars

\* update_options was given an option named game_over with value False while
\* the game was over, and the game is still over
C2_Witness ==
  /\ GameOver
  /\ last.op = "update_options"
  /\ "game_over" \in DOMAIN last.arg.d
  /\ ~Truthy(last.arg.d["game_over"])

\* players exists and 0 <= _current_player_id < len(players)
ValidCurrentPlayer ==
  /\ "players" \in DOMAIN self
  /\ "_current_player_id" \in DOMAIN self
  /\ self["players"].t = "list"
  /\ self["_current_player_id"].t = "int"
  /\ self["_current_player_id"].i >= 0
  /\ self["_current_player_id"].i < Len(self["players"].l)

\* C3 as stated: in every state reachable from any construction (no
\* arguments, options, or a state mapping) by step(), reset_game() and
\* update_options(), _current_player_id is a valid index into players.
C3_AlwaysValidCurrentPlayer == ValidCurrentPlayer

\* C3 amended: every call of reset_game(), the one made by a constructor
\* that was given no state mapping or an empty one included, leaves
\* _current_player_id a valid index into players, and no step(),
\* reset_game() or update_options() (nor any query) makes a valid index
\* invalid.
C3_ValidOnceReset ==
  /\ [](last.reset => ValidCurrentPlayer)
  /\ [][ValidCurrentPlayer => ValidCurrentPlayer']_vars

\* a game loaded with an index out of range was reset and then played a turn
C3_Witness ==
  /\ ValidCurrentPlayer
  /\ last.op = "step"
  /\ last.asks = 1
  /\ "_opt_a" \in DOMAIN self
  /\ self["_opt_a"] = PyInt(7)

\* the state just after the constructor, with its arguments
Constructed == last.op = "__init__"
StateArg == last.arg.state
OptionsArg == last.arg.options

\* every attribute the mapping names has the mapping's value
Loaded(state) ==
  \A k \in DOMAIN state : k \in DOMAIN self /\ self[k] = state[k]

\* C4 as stated: whenever a state mapping is supplied, the attributes it
\* names have its values and reset_game() is not called; when none is
\* supplied, reset_game() is called.
C4_AnyStateMappingSkipsReset ==
  Constructed =>
    IF StateArg.given THEN Loaded(StateArg.map) /\ ~last.reset
    ELSE last.reset

\* C4 amended: whenever a non-empty state mapping is supplied, every
\* attribute it names ends up with the mapping's value and reset_game() is
\* not called; when no state mapping or an empty one is supplied,
\* reset_game() is called; and the first step() of a Game constructed with
\* state {"game_over": true} is a no-op.
C4_NonEmptyStateMappingSkipsReset ==
  /\ [](Constructed =>
          IF StateArg.given /\ DOMAIN StateArg.map # {}
          THEN Loaded(StateArg.map) /\ ~last.reset
          ELSE last.reset)
  /\ [][(Constructed /\ StateArg = Mapping(StateGameOver) /\ Step) =>
          (GameOver /\ self' = self /\ last'.asks = 0)]_vars

\* the first step() of Game(state={"game_over": true}, options=...) returned
\* without asking a player, the game having no players at all
C4_Witness ==
  /\ last.op = "step"
  /\ last.asks = 0
  /\ self["game_over"] = PyBool(TRUE)
  /\ "players" \notin DOMAIN self
  /\ "_opt_a" \in DOMAIN self

\* C5: after construction game_over is the value the state mapping names for
\* it, and false when the mapping does not name it or was not given,
\* whatever the options mapping is.
C5_GameOverAfterInit ==
  Constructed =>
    self["game_over"] =
      IF StateArg.given /\ "game_over" \in DOMAIN StateArg.map
      THEN StateArg.map["game_over"]
      ELSE PyBool(FALSE)

\* a Game constructed with an option named game_over set to True and a state
\* mapping that does not name game_over: game_over is False
C5_Witness ==
  /\ Constructed
  /\ OptionsArg.given
  /\ "game_over" \in DOMAIN OptionsArg.map
  /\ Truthy(OptionsArg.map["game_over"])
  /\ StateArg.given
  /\ DOMAIN StateArg.map # {}
  /\ "game_over" \notin DOMAIN StateArg.map
  /\ self["game_over"] = PyBool(FALSE)
  /\ self["_opt_game_over"] = PyBool(TRUE)

\* the attributes of Game()
FreshGame ==
  [k \in {"game_over", "players", "_scores", "_current_player_id"} |->
     CASE k = "game_over" -> PyBool(FALSE)
       [] k = "players" -> PyList(<<Player>>)
       [] k = "_scores" -> PyList(<<PyInt(0)>>)
       [] OTHER -> PyInt(0)]

\* a step() that began with game_over false ends in this transition, its
\* player having returned an action
TurnPlayed ==
  /\ ~GameOver
  /\ Step \/ GetActionInput
  /\ pc' = "idle"
  /\ last'.op = "step"
  /\ last'.outcome.res = "ok"

\* C6: a Game constructed with no state and no options has exactly one
\* player, score 0, _current_player_id 0 and game_over false; a step() from a
\* state with game_over false makes game_over true if and only if the action
\* the current player returned is "1" (with "0" nothing changes); and the
\* step() that follows the one that ended the game changes nothing.
C6_FreshGameAndSentinel ==
  /\ []((Constructed /\ ~MappingTruthy(StateArg) /\ ~MappingTruthy(OptionsArg))
          => self = FreshGame)
  /\ [][TurnPlayed =>
          /\ last'.asks = 1
          /\ GameOver' <=> (last'.act = PyStr("1"))
          /\ last'.act = PyStr("0") => self' = self]_vars
  /\ [][(Step /\ last.op = "step" /\ last.act = PyStr("1")) =>
          (self' = self /\ last'.asks = 0)]_vars

\* an interactive player entered "1" and the step ended the game
C6_Witness ==
  /\ last.op = "step"
  /\ last.act = PyStr("1")
  /\ last.ga.player.cls = "CLI_Player"
  /\ last.ga.read = <<"1">>
  /\ self["game_over"] = PyBool(TRUE)

\* id is an index of _scores, counted from 0
ValidScoreId(id) ==
  /\ "_scores" \in DOMAIN self
  /\ self["_scores"].t = "list"
  /\ id >= 0
  /\ id < Len(self["_scores"].l)

\* C7: for every valid id, get_player_reward(id) returns exactly
\* _scores[id] and changes no attribute of the game, and no turn changes
\* _scores, so the reward of a player is the same before and after every
\* turn.
C7_RewardIsScore ==
  /\ [][(GetPlayerReward /\ ValidScoreId(last'.arg.i)) =>
          /\ last'.outcome = Ok(self["_scores"].l[last'.arg.i + 1])
          /\ self' = self]_vars
  /\ [][(Step \/ GetActionInput) =>
          GetAttr(self, "_scores")' = GetAttr(self, "_scores")]_vars

\* the reward of the second player of a loaded game, asked after the turn
\* that ended the game
C7_Witness ==
  /\ last.op = "get_player_reward"
  /\ last.arg = PyInt(1)
  /\ last.outcome = Ok(PyInt(5))
  /\ self["game_over"] = PyBool(TRUE)

\* len(players), 0 when the game has no list of players
NumPlayers ==
  IF "players" \in DOMAIN self /\ self["players"].t = "list"
  THEN Len(self["players"].l) ELSE 0

\* C8: get_player_reward(player_id) and get_player_state(player_id) raise,
\* and change nothing, for every player_id outside 0..len(players)-1,
\* negative ids included.
C8_OutOfRangeIdFails ==
  [][((GetPlayerReward \/ GetPlayerState)
        /\ last'.arg.i \notin 0..(NumPlayers - 1)) =>
       (last'.outcome.res = "raise" /\ self' = self)]_vars

\* a get_action call of a CLI_Player that returned an action
CLIReturned ==
  /\ last.op \in {"step", "get_action"}
  /\ last.asks = 1
  /\ last.ga.player.cls = "CLI_Player"
  /\ last.outcome.res = "ok"

RECURSIVE Reprompts(_)
\* what n invalid lines make the interactive player write
Reprompts(n) ==
  IF n = 0 THEN <<>> ELSE <<NotValid, ActionListText, Prompt>> \o Reprompts(n - 1)

\* the lines read by the get_action call that is blocked or has just ended
LinesRead == IF pc = "input" THEN frame.read ELSE last.ga.read

\* C9: when the interactive player's get_action returns, the value returned
\* is the last line it read, that line is an element of the action list and
\* no line read before it is, every line before it was answered by "Not a
\* valid action!" and a new prompt, and lines leave the input only one at a
\* time from the front, read by a call that has not returned yet.
C9_ReturnsFirstValidLine ==
  /\ [](CLIReturned =>
          LET read == last.ga.read
              n == Len(read)
              possible == last.ga.possible
              member(x) == \E i \in 1..Len(possible) : possible[i] = x
          IN /\ n >= 1
             /\ member(read[n])
             /\ \A i \in 1..(n - 1) : ~member(read[i])
             /\ last.act = PyStr(read[n])
             /\ last.ga.written = <<ActionListText, Prompt>> \o Reprompts(n - 1))
  /\ [][stdin' # stdin /\ Len(stdin') <= Len(stdin) =>
          /\ pc = "input"
          /\ stdin # <<>>
          /\ stdin' = Tail(stdin)
          /\ LinesRead' = Append(frame.read, Head(stdin))]_vars

\* the interactive player, offered "x" and "1", returned "1" after the
\* invalid line "0"
C9_Witness ==
  /\ CLIReturned
  /\ last.ga.possible = <<"x", "1", "x">>
  /\ last.ga.read = <<"0", "1">>
  /\ last.act = PyStr("1")
  /\ stdin = <<>>

\* C10: a get_action call of the interactive player that ends while a valid
\* line is waiting on the input ends by returning.
C10_ValidLineMakesCallReturn ==
  [][(/\ Step \/ CallGetAction \/ GetActionInput
      /\ pc' = "idle"
      /\ last'.asks = 1
      /\ last'.ga.player.cls = "CLI_Player"
      /\ \E i \in 1..Len(stdin) :
           \E j \in 1..Len(last'.ga.possible) :
             last'.ga.possible[j] = stdin[i])
       => last'.outcome.res = "ok"]_vars

\* a get_action call of the random Player
RandomCalled ==
  /\ last.op \in {"step", "get_action"}
  /\ last.asks = 1
  /\ last.ga.player.cls = "Player"

\* C11: a get_random_action() on an ActionList of n >= 1 actions returns an
\* element of the stored sequence; the sequence the list holds after the call
\* is still the one it was constructed with; and whenever a driver may call,
\* every element of a sequence of n >= 1 actions is a value the call can
\* return.
C11_RandomActionIsMember ==
  /\ (RandomCalled /\ Len(last.ga.possible) >= 1) =>
       /\ last.ga.possible \in DirectActions \cup {<<"0", "1">>}
       /\ last.act.t = "str"
       /\ \E i \in 1..Len(last.ga.possible) :
            last.ga.possible[i] = last.act.s
  /\ pc = "idle" =>
       \A possible \in DirectActions :
         \A i \in 1..Len(possible) :
           ENABLED (/\ CallGetAction
                    /\ pc' = "idle"
                    /\ last'.asks = 1
                    /\ last'.ga.player = Player
                    /\ last'.ga.possible = possible
                    /\ last'.act = PyStr(possible[i]))

\* the random Player, offered "x", "1", "x", returned the middle element
C11_Witness ==
  /\ RandomCalled
  /\ last.op = "get_action"
  /\ last.ga.possible = <<"x", "1", "x">>
  /\ last.act = PyStr("1")

\* C12: isValid(x) is true exactly when x is an element of the stored
\* sequence: a string in another case ("X" for "x"), a string with a trailing
\* blank ("1 " for "1") and the number 1 for the string "1" are not elements,
\* and nothing is an element of the empty sequence.
C12_IsValidIsMembership ==
  last.op = "isValid" =>
    last.outcome =
      Ok(PyBool(\E i \in 1..Len(last.arg.possible) :
                  PyStr(last.arg.possible[i]) = last.arg.candidate))

\* isValid("X") on the list "x", "1", "x" answered False
C12_Witness ==
  /\ last.op = "isValid"
  /\ last.arg.possible = <<"x", "1", "x">>
  /\ last.arg.candidate = PyStr("X")
  /\ last.outcome = Ok(PyBool(FALSE))

\* C13: get_full_state() raises NotImplementedError in every state in which
\* it is called and changes nothing of the game, the terminal or a call in
\* progress; the step() that follows it is the step the game would have
\* taken anyway: a no-op when the game is over, otherwise one request to the
\* current player whose action "1", and only that, ends the game.
C13_GetFullStateFailsHarmlessly ==
  /\ [][GetFullState =>
          /\ last'.outcome = Raise("NotImplementedError")
          /\ UNCHANGED <<self, pc, frame, stdin, typed, eof>>]_vars
  /\ [][(last.op = "get_full_state" /\ GameOver /\ Step) =>
          (self' = self /\ last'.asks = 0 /\ last'.outcome = Ok(PyNone))]_vars
  /\ [][(last.op = "get_full_state" /\ ~GameOver /\ Step /\ pc' = "idle"
           /\ GetActionMethod(self).res = "ok") =>
          /\ last'.asks = 1
          /\ last'.ga.player = GetActionMethod(self).val
          /\ last'.outcome.res = "ok" => (GameOver' <=> last'.act = PyStr("1"))]_vars

\* get_full_state() failed on a game of two players that is still running
C13_Witness ==
  /\ last.op = "get_full_state"
  /\ last.outcome = Raise("NotImplementedError")
  /\ ~GameOver
  /\ ValidCurrentPlayer
  /\ Len(self["players"].l) = 2

\* the attributes every Game has after reset_game
CoreFields == {"game_over", "players", "_scores", "_current_player_id"}

\* C14: update_options() sets the attribute "_opt_" + name to the value of
\* every option it is given, names no core field that way, and leaves every
\* other attribute (game_over, players, _scores, _current_player_id
\* included) as it was; the constructor applies the options before the state
\* load or reset_game(), so each option is found under its prefixed name with
\* the option's value unless the state mapping names that attribute, and
\* then with the state's value.
C14_OptionsArePrefixed ==
  /\ [][UpdateOptions =>
          LET options == last'.arg.d
              named == {"_opt_" \o name : name \in DOMAIN options}
          IN /\ named \cap CoreFields = {}
             /\ DOMAIN self' = DOMAIN self \cup named
             /\ \A name \in DOMAIN options :
                  self'["_opt_" \o name] = options[name]
             /\ \A k \in DOMAIN self \ named : self'[k] = self[k]]_vars
  /\ []((Constructed /\ OptionsArg.given) =>
          \A name \in DOMAIN OptionsArg.map :
            /\ ("_opt_" \o name) \in DOMAIN self
            /\ self["_opt_" \o name] =
                 IF MappingTruthy(StateArg)
                      /\ ("_opt_" \o name) \in DOMAIN StateArg.map
                 THEN StateArg.map["_opt_" \o name]
                 ELSE OptionsArg.map[name])

\* Game(options={"a": 1, ...}, state={"_opt_a": 7, ...}): _opt_a is 7
C14_Witness ==
  /\ Constructed
  /\ OptionsArg.given
  /\ "a" \in DOMAIN OptionsArg.map
  /\ OptionsArg.map["a"] = PyInt(1)
  /\ MappingTruthy(StateArg)
  /\ self["_opt_a"] = PyInt(7)
  /\ self["_opt_game_over"] = PyBool(FALSE)

\* the score lists of the games a game is compared with
OtherScores ==
  {<<PyInt(3), PyInt(5)>>, <<PyInt(3), PyInt(9)>>, <<PyInt(0), PyInt(5)>>,
   <<PyInt(0), PyInt(0)>>, <<PyInt(9), PyInt(0)>>, <<PyInt(0)>>}

\* games that differ from game in one attribute
Variants(game) ==
  {SetAttr(game, "game_over", PyBool(b)) : b \in BOOLEAN}
    \cup {SetAttr(game, "_current_player_id", PyInt(i)) : i \in 0..1}
    \cup {SetAttr(game, "players", PyList(p)) :
            p \in {<<>>, <<CLI_Player("stdout"), Player>>}}
    \cup {SetAttr(game, "_scores", PyList(sc)) : sc \in OtherScores}
    \cup {SetAttr(game, "_opt_hidden", PyInt(1))}

\* C15: get_player_state(player_id) returns the mapping {"score":
\* _scores[player_id]} and nothing else: a game that differs in game_over,
\* in the players, in the current player, in an option or in the other
\* players' scores, but has the same score for player_id, gives the same
\* result; and the call changes no attribute of the game.
C15_PlayerStateIsOwnScore ==
  /\ [](last.op = "get_player_state" =>
          \A other \in Variants(self) :
            get_player_reward(other, last.arg) = get_player_reward(self, last.arg)
              => get_player_state(other, last.arg) = last.outcome)
  /\ []((last.op = "get_player_state" /\ last.outcome.res = "ok") =>
          last.outcome.val
            = PyDict([score |-> get_player_reward(self, last.arg).val]))
  /\ [][GetPlayerState => UNCHANGED <<self, pc, frame, stdin, typed, eof>>]_vars

\* player 1 of the saved game, whose scores are 3 and 5, sees score 5
C15_Witness ==
  /\ last.op = "get_player_state"
  /\ last.arg = PyInt(1)
  /\ GetAttr(self, "_scores") = Ok(PyList(<<PyInt(3), PyInt(5)>>))
  /\ last.outcome = Ok(PyDict([score |-> PyInt(5)]))

(***************************************************************************)
(* The outer loop: `while not game.game_over: game.step()`.  An exception  *)
(* of step ends the driver, and nothing else calls the game or reads the   *)
(* terminal meanwhile.                                                     *)
(***************************************************************************)
DriverLoop ==
  /\ pc = "idle"
  /\ last.outcome.res = "ok"
  /\ ~Truthy(self["game_over"])
  /\ Step

\* a turn ends with the player having returned "1"
PlayerReturnsOne ==
  /\ DriverLoop \/ GetActionInput
  /\ pc' = "idle"
  /\ last'.act = PyStr("1")

LiveNext == DriverLoop \/ GetActionInput \/ TypeLine \/ CloseStdin

\* the loop keeps calling step, input() returns once a line or the end of
\* the input is there, and a player that can return "1" again and again
\* eventually does
LiveSpec ==
  /\ Init
  /\ [][LiveNext]_vars
  /\ WF_vars(DriverLoop)
  /\ WF_vars(GetActionInput)
  /\ SF_vars(PlayerReturnsOne)

\* the loop is between two steps and goes on
LoopRunning == pc = "idle" /\ last.outcome.res = "ok" /\ ~GameOver

\* the current player is one that returns "1" sooner or later: the random
\* player, or the interactive player with a "1" among the lines typed
WillReturnOne ==
  \/ /\ LoopRunning
     /\ GetActionMethod(self).res = "ok"
     /\ \/ GetActionMethod(self).val = Player
        \/ /\ GetActionMethod(self).val = CLI_Player("duck")
           /\ \E i \in 1..Len(stdin) : stdin[i] = "1"
  \/ /\ pc = "input"
     /\ \E i \in 1..Len(stdin) : stdin[i] = "1"

\* the loop ends with game_over true once the player returns "1"
C16_Terminates == WillReturnOne ~> (GameOver /\ ~ENABLED DriverLoop)

\* a turn whose player returned "0" leaves game_over false and the loop
\* ready for another step
C16_ZeroGoesOn ==
  [](last.op = "step" /\ last.asks = 1 /\ last.act = PyStr("0") =>
       /\ ~GameOver
       /\ pc = "idle" => ENABLED DriverLoop)

\* C16 as stated: the loop ends with game_over true under the fairness
\* above, a turn answered "0" leaves the loop running with game_over false,
\* and every step of the loop, taken with game_over false, asks exactly the
\* player at _current_player_id, once.
C16_EveryStepAsksOnePlayer ==
  /\ C16_Terminates
  /\ C16_ZeroGoesOn
  /\ [][((DriverLoop \/ GetActionInput) /\ pc' = "idle") =>
          /\ last'.op = "step"
          /\ last'.asks = 1
          /\ Ok(last'.ga.player) = GetActionMethod(self)]_vars

\* C16 amended: the same, for the steps of a game whose
\* players[_current_player_id] is a player; on any other game the step
\* raises and asks nobody.
C16_StepWithPlayerAsksOnePlayer ==
  /\ C16_Terminates
  /\ C16_ZeroGoesOn
  /\ [][((DriverLoop \/ GetActionInput) /\ pc' = "idle") =>
          /\ last'.op = "step"
          /\ IF GetActionMethod(self).res = "ok"
             THEN /\ last'.asks = 1
                  /\ Ok(last'.ga.player) = GetActionMethod(self)
             ELSE /\ last'.asks = 0
                  /\ last'.outcome = GetActionMethod(self)]_vars

\* the loop over the saved game ended after the interactive player was
\* asked twice and answered "0" and then "1"
C16_Witness ==
  /\ GameOver
  /\ ~ENABLED DriverLoop
  /\ last.op = "step"
  /\ last.asks = 1
  /\ last.ga.player = CLI_Player("duck")
  /\ last.ga.read = <<"1">>
  /\ typed = 2
  /\ stdin = <<>>

\* C17: reset_game(), in whatever state it is called (game_over true
\* included), leaves game_over false, exactly one random player, scores [0]
\* and _current_player_id 0, and every other attribute (the options) as it
\* was; a step() that follows it asks that player for one action from
\* ["0", "1"].
C17_ResetRestoresInitial ==
  /\ [][ResetGame =>
          /\ DOMAIN self' = DOMAIN self \cup CoreFields
          /\ \A k \in CoreFields : self'[k] = FreshGame[k]
          /\ \A k \in DOMAIN self \ CoreFields : self'[k] = self[k]]_vars
  /\ [][(last.op = "reset_game" /\ Step) =>
          /\ last'.op = "step"
          /\ last'.asks = 1
          /\ last'.ga.player = Player
          /\ last'.ga.possible = <<"0", "1">>
          /\ last'.outcome = Ok(PyNone)]_vars

\* reset_game() on a game that has the option game_over = True and an
\* attribute _opt_a the options did not set
C17_Witness ==
  /\ last.op = "reset_game"
  /\ ~GameOver
  /\ GetAttr(self, "_opt_game_over") = Ok(PyBool(TRUE))
  /\ GetAttr(self, "_opt_a") = Ok(PyInt(7))

\* C18: the list a step() hands to its player is never empty: it is
\* ["0", "1"] in every get_action call a step makes, whether the call has
\* returned or is blocked in input(); the random player asked by a step
\* always returns; and the action a step applies is an element of that
\* list, for the random and for the interactive player.
C18_StepPresentsZeroOne ==
  /\ (last.op = "step" /\ last.asks = 1) =>
       /\ last.ga.possible = <<"0", "1">>
       /\ Len(last.ga.possible) >= 1
       /\ last.ga.player.cls \in {"Player", "CLI_Player"}
       /\ last.ga.player.cls = "Player" => last.outcome.res = "ok"
       /\ last.outcome.res = "ok" =>
            /\ last.act.t = "str"
            /\ \E i \in 1..Len(last.ga.possible) :
                 last.ga.possible[i] = last.act.s
            /\ GameOver <=> last.act.s = "1"
  /\ (pc = "input" /\ frame.via = "step") =>
       frame.possible = <<"0", "1">>

\* the interactive player, asked by a step, read "x" and then "0"
C18_Witness ==
  /\ last.op = "step"
  /\ last.asks = 1
  /\ last.ga.player = CLI_Player("duck")
  /\ last.ga.possible = <<"0", "1">>
  /\ last.ga.read = <<"x", "0">>
  /\ last.act = PyStr("0")

\* C19: a step(), whatever the state and whatever its player returns or
\* raises, changes no attribute but game_over, which it leaves as it was or
\* sets to True: players, _scores, _current_player_id and every option
\* attribute are the same after it, so a game that stays in play asks the
\* same player turn after turn and no score moves.
C19_StepChangesOnlyGameOver ==
  /\ [][(Step \/ GetActionInput) =>
          /\ DOMAIN self' = DOMAIN self
          /\ \A k \in DOMAIN self \ {"game_over"} : self'[k] = self[k]
          /\ self'["game_over"] \in {self["game_over"], PyBool(TRUE)}
          /\ CurrentPlayer(self') = CurrentPlayer(self)
          /\ GetAttr(self', "_scores") = GetAttr(self, "_scores")]_vars
  /\ [][(last.op = "step" /\ last.asks = 1 /\ ~GameOver /\ Step
           /\ pc' = "idle") =>
          /\ last'.asks = 1
          /\ last'.ga.player = last.ga.player]_vars

\* a turn of the saved game answered "0": scores 3 and 5, the option a and
\* the current player 1 are as loaded
C19_Witness ==
  /\ last.op = "step"
  /\ last.act = PyStr("0")
  /\ GetAttr(self, "_scores") = Ok(PyList(<<PyInt(3), PyInt(5)>>))
  /\ GetAttr(self, "_current_player_id") = Ok(PyInt(1))
  /\ GetAttr(self, "_opt_a") = Ok(PyInt(1))

====
